---- MODULE Spec2Model ----
(***************************************************************************)
(* Version filter of the generated API documentation: the index document   *)
(* (selector controller, src/unnamed/part_000) and the class document      *)
(* shown in its iframe (frame filter controller, src/res/filter-classes.js)*)
(* hide and show version-tagged elements and stay in step by postMessage.  *)
(***************************************************************************)
EXTENDS Integers, Sequences, FiniteSets, TLC

(***************************************************************************)
(* JavaScript values.  A string is the sequence of its UTF-16 code units;  *)
(* getAttribute() of an absent attribute is null.                          *)
(***************************************************************************)
Null == [t |-> "null", s |-> <<>>]
Str(s) == [t |-> "string", s |-> s]

\* "master", "1.0", "1.1", "1.2", "1.10", "2.0"
master == Str(<<109, 97, 115, 116, 101, 114>>)
v1_0 == Str(<<49, 46, 48>>)
v1_1 == Str(<<49, 46, 49>>)
v1_2 == Str(<<49, 46, 50>>)
v1_10 == Str(<<49, 46, 49, 48>>)
v2_0 == Str(<<50, 46, 48>>)

\* The options of the <select id="tags"> element.
Tags == {v1_0, v1_1, v1_2, master}

IsDigit(c) == c \in 48..57
IsDot(c) == c = 46

RECURSIVE Pow10(_)
Pow10(n) == IF n = 0 THEN 1 ELSE 10 * Pow10(n - 1)

NaN == [nan |-> TRUE, m |-> 0, e |-> 0]
\* The number m / 10^e.
Num(m, e) == [nan |-> FALSE, m |-> m, e |-> e]

RECURSIVE DigitsValue(_)
\* The value of the digits of s, dots skipped.
DigitsValue(s) ==
    IF s = <<>> THEN 0
    ELSE LET c == s[Len(s)]
             rest == SubSeq(s, 1, Len(s) - 1)
         IN IF IsDot(c) THEN DigitsValue(rest)
            ELSE (c - 48) + 10 * DigitsValue(rest)

\* StringToNumber: the empty string is 0; an unsigned decimal literal
\* (digits, at most one dot, at least one digit) is its value; any other
\* string of the model's alphabet (digits, dot, the letters of "master")
\* is NaN.
StringToNumber(s) ==
    LET dots == {i \in 1..Len(s) : IsDot(s[i])}
        digits == {i \in 1..Len(s) : IsDigit(s[i])}
    IN IF s = <<>> THEN Num(0, 0)
       ELSE IF /\ dots \cup digits = 1..Len(s)
               /\ Cardinality(dots) <= 1
               /\ digits # {}
            THEN Num(DigitsValue(s),
                     IF dots = {} THEN 0
                     ELSE Len(s) - (CHOOSE i \in dots : TRUE))
            ELSE NaN

\* ToNumber: null is +0.
ToNumber(x) == IF x.t = "null" THEN Num(0, 0) ELSE StringToNumber(x.s)

RECURSIVE StringLess(_, _)
\* a < b on strings: code unit by code unit, a proper prefix is smaller.
StringLess(a, b) ==
    IF b = <<>> THEN FALSE
    ELSE IF a = <<>> THEN TRUE
    ELSE IF a[1] # b[1] THEN a[1] < b[1]
    ELSE StringLess(Tail(a), Tail(b))

\* IsLessThan(x, y): "true", "false" or "undefined" (a NaN operand).
IsLessThan(x, y) ==
    IF x.t = "string" /\ y.t = "string"
    THEN IF StringLess(x.s, y.s) THEN "true" ELSE "false"
    ELSE LET nx == ToNumber(x)
             ny == ToNumber(y)
         IN IF nx.nan \/ ny.nan THEN "undefined"
            ELSE IF nx.m * Pow10(ny.e) < ny.m * Pow10(nx.e) THEN "true"
            ELSE "false"

\* x <= y  is  IsLessThan(y, x) being neither true nor undefined.
LessOrEqual(x, y) == IsLessThan(y, x) = "false"

\* x == y for strings and null: null equals only null.
LooseEquals(x, y) ==
    IF x.t = "string" /\ y.t = "string" THEN x.s = y.s ELSE x.t = y.t

(***************************************************************************)
(* The two documents.  An element is its tag and its two attributes; the   *)
(* index document lists <li> items, the class document blocks of any tag.  *)
(***************************************************************************)
Element(tag, first, last) == [tag |-> tag, first |-> first, last |-> last]

\* The pairs (data-version-first, data-version-last) the documents carry.
AttrPairs ==
    {<<v1_0, v1_2>>, <<v1_0, Null>>, <<v2_0, Null>>, <<Null, v1_2>>,
     <<v1_10, v2_0>>, <<v2_0, master>>, <<master, Null>>, <<Null, Null>>}

IndexDoc ==
    {Element("li", p[1], p[2]) : p \in AttrPairs}
    \cup {Element("div", v1_2, Null), Element("div", v2_0, master)}

ClassesDoc ==
    {Element("div", p[1], p[2]) : p \in AttrPairs}
    \cup {Element("li", v1_0, v1_2), Element("li", v2_0, Null),
          Element("span", Null, v1_10)}

\* An element carrying data-version-first or data-version-last.
Tagged(e) == e.first # Null \/ e.last # Null

\* Variant: the index query without its li scope.
classList_index_anyTag == {e \in IndexDoc : Tagged(e)}

\* querySelectorAll('li[data-version-first], li[data-version-last]')
classList_index == {e \in IndexDoc : e.tag = "li" /\ Tagged(e)}

\* Variant: the query selects every element of the class document.
classList_classes_all == ClassesDoc

\* querySelectorAll('[data-version-first], [data-version-last]')
classList_classes == {e \in ClassesDoc : Tagged(e)}

(***************************************************************************)
(* Messages.  A field a message does not carry reads as undefined.         *)
(***************************************************************************)
Undefined == [t |-> "undefined", s |-> <<>>]
Message(method, version, delta) ==
    [method |-> method, version |-> version, delta |-> delta]
FilterClearMsg == Message("filterClear", Undefined, FALSE)
FilterApplyMsg(version, delta) == Message("filterApply", version, delta)
GetFilterMsg == Message("getFilter", Undefined, FALSE)

\* The last filter function a document ran, with its arguments.
Call(op, version, delta) == [op |-> op, version |-> version, delta |-> delta]
NoCall == Call("none", Undefined, FALSE)

(***************************************************************************)
(* Selector controller (index document).                                   *)
(***************************************************************************)
\* Variant: the delta rule applied whatever the delta argument is.
show_index_alwaysDelta(version, delta, classItem) ==
    \/ LooseEquals(version, classItem.first)
    \/ LooseEquals(version, classItem.last)

\* show, as computed in the loop of filterApply for classItem.
show_index(version, delta, classItem) ==
    IF delta
    THEN \/ LooseEquals(version, classItem.first)
         \/ LooseEquals(version, classItem.last)
    ELSE \/ LooseEquals(version, master)
         \/ LessOrEqual(classItem.first, version)
         \/ LessOrEqual(classItem.last, version)

\* Variant: filterClear without its postMessage.
filterClear_index_silent(st) ==
    [hidden |-> st.hidden \ classList_index,
     out |-> st.out,
     last |-> Call("filterClear", Undefined, FALSE)]

\* st = [hidden, out, last]: the elements with class 'hidden', the messages
\* posted to the iframe and not yet delivered, the last call.
filterClear_index(st) ==
    [hidden |-> st.hidden \ classList_index,
     out |-> Append(st.out, FilterClearMsg),
     last |-> Call("filterClear", Undefined, FALSE)]

\* Variant: the message posted to the iframe does not carry delta.
filterApply_index_noDelta(st, version, delta) ==
    [hidden |-> (st.hidden \ classList_index)
                \cup {e \in classList_index :
                        ~( IF delta
                           THEN \/ LooseEquals(version, e.first)
                                \/ LooseEquals(version, e.last)
                           ELSE \/ LooseEquals(version, master)
                                \/ LessOrEqual(e.first, version)
                                \/ LessOrEqual(e.last, version) )},
     out |-> Append(st.out, FilterApplyMsg(version, FALSE)),
     last |-> Call("filterApply", version, delta)]

\* Variant: the message overtakes the messages posted before it.
filterApply_index_overtake(st, version, delta) ==
    [hidden |-> (st.hidden \ classList_index)
                \cup {e \in classList_index :
                        ~( IF delta
                           THEN \/ LooseEquals(version, e.first)
                                \/ LooseEquals(version, e.last)
                           ELSE \/ LooseEquals(version, master)
                                \/ LessOrEqual(e.first, version)
                                \/ LessOrEqual(e.last, version) )},
     out |-> <<FilterApplyMsg(version, delta)>> \o st.out,
     last |-> Call("filterApply", version, delta)]

filterApply_index(st, version, delta) ==
    [hidden |-> (st.hidden \ classList_index)
                \cup {e \in classList_index : ~show_index(version, delta, e)},
     out |-> Append(st.out, FilterApplyMsg(version, delta)),
     last |-> Call("filterApply", version, delta)]

(***************************************************************************)
(* Frame filter controller (class document).                               *)
(***************************************************************************)
\* Variant: the delta rule looks at data-version-first alone.
show_classes_firstOnly(version, delta, classItem) ==
    IF delta
    THEN LooseEquals(version, classItem.first)
    ELSE \/ LooseEquals(version, master)
         \/ LessOrEqual(classItem.first, version)
         \/ LessOrEqual(classItem.last, version)

\* Variant: the delta rule applied whatever the delta argument is.
show_classes_alwaysDelta(version, delta, classItem) ==
    \/ LooseEquals(version, classItem.first)
    \/ LooseEquals(version, classItem.last)

show_classes(version, delta, classItem) ==
    IF delta
    THEN \/ LooseEquals(version, classItem.first)
         \/ LooseEquals(version, classItem.last)
    ELSE \/ LooseEquals(version, master)
         \/ LessOrEqual(classItem.first, version)
         \/ LessOrEqual(classItem.last, version)

\* Variant: the query of the index document, 'li[...]', used in the frame.
filterClear_classes_liOnly(hidden) ==
    hidden \ {e \in ClassesDoc : e.tag = "li" /\ Tagged(e)}

filterClear_classes(hidden) == hidden \ classList_classes

\* Variant: classList.toggle('hidden') where the code has classList.add.
filterApply_classes_toggle(hidden, version, delta) ==
    (hidden \ {e \in classList_classes :
                 \/ e \in hidden
                 \/ IF delta
                    THEN \/ LooseEquals(version, e.first)
                         \/ LooseEquals(version, e.last)
                    ELSE \/ LooseEquals(version, master)
                         \/ LessOrEqual(e.first, version)
                         \/ LessOrEqual(e.last, version)})
    \cup {e \in classList_classes :
            /\ e \notin hidden
            /\ ~( IF delta
                  THEN \/ LooseEquals(version, e.first)
                       \/ LooseEquals(version, e.last)
                  ELSE \/ LooseEquals(version, master)
                       \/ LessOrEqual(e.first, version)
                       \/ LessOrEqual(e.last, version) )}

\* Variant: an element is revealed when shown but never hidden.
filterApply_classes_removeOnly(hidden, version, delta) ==
    hidden
    \ {e \in classList_classes :
            IF delta
            THEN \/ LooseEquals(version, e.first)
                 \/ LooseEquals(version, e.last)
            ELSE \/ LooseEquals(version, master)
                 \/ LessOrEqual(e.first, version)
                 \/ LessOrEqual(e.last, version)}

\* Variant: a hidden element is never revealed again.
filterApply_classes_addOnly(hidden, version, delta) ==
    hidden
    \cup {e \in classList_classes :
            ~( IF delta
               THEN \/ LooseEquals(version, e.first)
                    \/ LooseEquals(version, e.last)
               ELSE \/ LooseEquals(version, master)
                    \/ LessOrEqual(e.first, version)
                    \/ LessOrEqual(e.last, version) )}

filterApply_classes(hidden, version, delta) ==
    (hidden \ classList_classes)
    \cup {e \in classList_classes : ~show_classes(version, delta, e)}

(***************************************************************************)
(* State.                                                                  *)
(***************************************************************************)
VARIABLES
    selection_value,         \* value of <select id="tags">
    viewModeDelta_disabled,  \* the delta toggle's disabled property
    viewModeDelta_checked,   \* the delta toggle's checked property
    viewModeDeltaLbl_hidden, \* the toggle's label has class 'hidden'
    selection_onchange,      \* "null" or "update"
    viewModeDelta_onchange,  \* "null" or "update"
    index_readyState,        \* readyState of the index document
    hiddenIndex,             \* elements of the index document with class 'hidden'
    lastIndex,               \* last filter call run in the index document
    classes_readyState,      \* readyState of the class document, "unloaded"
                             \* until its script has registered its listeners
    hiddenClasses,           \* elements of the class document with class 'hidden'
    lastClasses,             \* last filter call run in the class document
    toFrame,                 \* messages posted to the iframe, in order
    toParent,                \* messages posted to the parent, in order
    answered,                \* a getFilter has run the selector's handler
    thrown                   \* a handler has thrown an uncaught TypeError

vars == <<selection_value, viewModeDelta_disabled, viewModeDelta_checked,
          viewModeDeltaLbl_hidden, selection_onchange, viewModeDelta_onchange,
          index_readyState, hiddenIndex, lastIndex, classes_readyState,
          hiddenClasses, lastClasses, toFrame, toParent, answered, thrown>>

controls == <<selection_value, viewModeDelta_disabled, viewModeDelta_checked,
              viewModeDeltaLbl_hidden>>
handlers == <<selection_onchange, viewModeDelta_onchange>>
indexDom == <<hiddenIndex, lastIndex>>
classesDom == <<hiddenClasses, lastClasses>>

\* Messages a document may have posted and not yet seen delivered.
MaxInFlight == 2

Init ==
    /\ selection_value \in Tags
    /\ viewModeDelta_disabled \in BOOLEAN
    /\ viewModeDelta_checked \in BOOLEAN
    /\ viewModeDeltaLbl_hidden \in BOOLEAN
    /\ selection_onchange = "null"
    /\ viewModeDelta_onchange = "null"
    /\ index_readyState = "loading"
    /\ hiddenIndex \in SUBSET {e \in IndexDoc : e.tag = "li" /\ ~Tagged(e)}
    /\ lastIndex = NoCall
    /\ classes_readyState = "unloaded"
    /\ hiddenClasses \in SUBSET {e \in ClassesDoc : e.tag = "div" /\ ~Tagged(e)}
    /\ lastClasses = NoCall
    /\ toFrame = <<>>
    /\ toParent = <<>>
    /\ answered = FALSE
    /\ thrown = FALSE

NextReadyState(rs) ==
    IF rs = "loading" THEN "interactive" ELSE "complete"

\* Variant: delta computed from the toggle before the toggle is enabled.
update_readsToggleFirst(value, isChecked) ==
    LET st == [hidden |-> hiddenIndex, out |-> toFrame, last |-> lastIndex]
        deltaEffective == (viewModeDelta_disabled = FALSE) /\ isChecked
    IN IF LooseEquals(value, master)
       THEN LET c == filterClear_index(st)
                a == filterApply_index(c, value, deltaEffective)
            IN /\ Len(a.out) <= MaxInFlight
               /\ hiddenIndex' = a.hidden
               /\ toFrame' = a.out
               /\ lastIndex' = a.last
               /\ UNCHANGED <<viewModeDelta_disabled, viewModeDeltaLbl_hidden>>
       ELSE LET a == filterApply_index(st, value, deltaEffective)
            IN /\ Len(a.out) <= MaxInFlight
               /\ viewModeDelta_disabled' = FALSE
               /\ viewModeDeltaLbl_hidden' = FALSE
               /\ hiddenIndex' = a.hidden
               /\ toFrame' = a.out
               /\ lastIndex' = a.last

\* update(), run with the selector at value and the toggle's checked
\* property at isChecked.
update(value, isChecked) ==
    LET st == [hidden |-> hiddenIndex, out |-> toFrame, last |-> lastIndex]
    IN IF LooseEquals(value, master)
       THEN LET c == filterClear_index(st)
                a == filterApply_index(c, value,
                         (viewModeDelta_disabled = FALSE) /\ isChecked)
            IN /\ Len(a.out) <= MaxInFlight
               /\ hiddenIndex' = a.hidden
               /\ toFrame' = a.out
               /\ lastIndex' = a.last
               /\ UNCHANGED <<viewModeDelta_disabled, viewModeDeltaLbl_hidden>>
       ELSE \* viewModeDelta.disabled has just been set to false
            LET a == filterApply_index(st, value, (FALSE = FALSE) /\ isChecked)
            IN /\ Len(a.out) <= MaxInFlight
               /\ viewModeDelta_disabled' = FALSE
               /\ viewModeDeltaLbl_hidden' = FALSE
               /\ hiddenIndex' = a.hidden
               /\ toFrame' = a.out
               /\ lastIndex' = a.last

\* document "readystatechange" listener of the index document.
IndexReadyStateChange ==
    /\ index_readyState # "complete"
    /\ index_readyState' = NextReadyState(index_readyState)
    /\ selection_onchange' = "update"
    /\ viewModeDelta_onchange' = "update"
    /\ UNCHANGED <<controls, indexDom, classes_readyState, classesDom,
                   toFrame, toParent, answered, thrown>>

\* The user picks another option of the selector: its change event.
SelectionChange(v) ==
    /\ v # selection_value
    /\ selection_value' = v
    /\ IF selection_onchange = "update"
       THEN update(v, viewModeDelta_checked)
       ELSE UNCHANGED <<viewModeDelta_disabled, viewModeDeltaLbl_hidden,
                        indexDom, toFrame>>
    /\ UNCHANGED <<viewModeDelta_checked, handlers, index_readyState,
                   classes_readyState, classesDom, toParent, answered, thrown>>

\* The user clicks the delta toggle (a disabled control takes no click).
ViewModeDeltaChange ==
    /\ viewModeDelta_disabled = FALSE
    /\ viewModeDelta_checked' = ~viewModeDelta_checked
    /\ IF viewModeDelta_onchange = "update"
       THEN update(selection_value, ~viewModeDelta_checked)
       ELSE UNCHANGED <<viewModeDelta_disabled, viewModeDeltaLbl_hidden,
                        indexDom, toFrame>>
    /\ UNCHANGED <<selection_value, handlers, index_readyState,
                   classes_readyState, classesDom, toParent, answered, thrown>>

\* window "message" listener of the index document.
IndexMessage ==
    /\ toParent # <<>>
    /\ toParent' = Tail(toParent)
    /\ IF Head(toParent).method = "getFilter"
       THEN IF selection_onchange = "update"
            THEN /\ update(selection_value, viewModeDelta_checked)
                 /\ answered' = TRUE
                 /\ UNCHANGED thrown
            ELSE \* selection.onchange is null: the call throws
                 /\ thrown' = TRUE
                 /\ UNCHANGED <<viewModeDelta_disabled, viewModeDeltaLbl_hidden,
                                indexDom, toFrame, answered>>
       ELSE UNCHANGED <<viewModeDelta_disabled, viewModeDeltaLbl_hidden,
                        indexDom, toFrame, answered, thrown>>
    /\ UNCHANGED <<selection_value, viewModeDelta_checked, handlers,
                   index_readyState, classes_readyState, classesDom>>

\* The class document's script runs: both its listeners are registered.
ClassesScript ==
    /\ classes_readyState = "unloaded"
    /\ classes_readyState' = "loading"
    /\ UNCHANGED <<controls, handlers, index_readyState, indexDom, classesDom,
                   toFrame, toParent, answered, thrown>>

\* Variant: the class document filters itself when its ready state changes.
ClassesReadyStateChange_selfFilter ==
    /\ classes_readyState \in {"loading", "interactive"}
    /\ classes_readyState' = NextReadyState(classes_readyState)
    /\ toParent' = Append(toParent, GetFilterMsg)
    /\ hiddenClasses' = filterApply_classes(hiddenClasses, v1_0, TRUE)
    /\ lastClasses' = Call("filterApply", v1_0, TRUE)
    /\ UNCHANGED <<controls, handlers, index_readyState, indexDom,
                   toFrame, answered, thrown>>

\* document "readystatechange" listener of the class document.
ClassesReadyStateChange ==
    /\ classes_readyState \in {"loading", "interactive"}
    /\ classes_readyState' = NextReadyState(classes_readyState)
    /\ toParent' = Append(toParent, GetFilterMsg)
    /\ UNCHANGED <<controls, handlers, index_readyState, indexDom, classesDom,
                   toFrame, answered, thrown>>

\* Variant: a listener whose last branch is a bare else running filterClear.
ClassesMessage_defaultClear ==
    /\ toFrame # <<>>
    /\ toFrame' = Tail(toFrame)
    /\ LET data == Head(toFrame)
       IN IF classes_readyState = "unloaded"
          THEN UNCHANGED classesDom
          ELSE IF data.method = "filterApply"
          THEN /\ hiddenClasses' =
                      (hiddenClasses \ classList_classes)
                      \cup {e \in classList_classes :
                              ~show_classes(data.version, data.delta, e)}
               /\ lastClasses' = Call("filterApply", data.version, data.delta)
          ELSE /\ hiddenClasses' = hiddenClasses \ classList_classes
               /\ lastClasses' = Call("filterClear", Undefined, FALSE)
    /\ UNCHANGED <<controls, handlers, index_readyState, indexDom,
                   classes_readyState, toParent, answered, thrown>>

\* Variant: the class document asks for the filter again after applying one.
ClassesMessage_echo ==
    /\ toFrame # <<>>
    /\ toFrame' = Tail(toFrame)
    /\ LET data == Head(toFrame)
       IN IF classes_readyState = "unloaded"
          THEN UNCHANGED <<classesDom, toParent>>
          ELSE IF data.method = "filterClear"
          THEN /\ hiddenClasses' = hiddenClasses \ classList_classes
               /\ lastClasses' = Call("filterClear", Undefined, FALSE)
               /\ UNCHANGED toParent
          ELSE IF data.method = "filterApply"
          THEN /\ hiddenClasses' =
                      (hiddenClasses \ classList_classes)
                      \cup {e \in classList_classes :
                              ~show_classes(data.version, data.delta, e)}
               /\ lastClasses' = Call("filterApply", data.version, data.delta)
               /\ toParent' = IF Len(toParent) < MaxInFlight
                              THEN Append(toParent, GetFilterMsg)
                              ELSE toParent
          ELSE UNCHANGED <<classesDom, toParent>>
    /\ UNCHANGED <<controls, handlers, index_readyState, indexDom,
                   classes_readyState, answered, thrown>>

\* window "message" listener of the class document; a message delivered
\* before the listener is registered is lost.
ClassesMessage ==
    /\ toFrame # <<>>
    /\ toFrame' = Tail(toFrame)
    /\ LET data == Head(toFrame)
       IN IF classes_readyState = "unloaded"
          THEN UNCHANGED classesDom
          ELSE IF data.method = "filterClear"
          THEN /\ hiddenClasses' = filterClear_classes(hiddenClasses)
               /\ lastClasses' = Call("filterClear", Undefined, FALSE)
          ELSE IF data.method = "filterApply"
          THEN /\ hiddenClasses' =
                      filterApply_classes(hiddenClasses, data.version, data.delta)
               /\ lastClasses' = Call("filterApply", data.version, data.delta)
          ELSE UNCHANGED classesDom
    /\ UNCHANGED <<controls, handlers, index_readyState, indexDom,
                   classes_readyState, toParent, answered, thrown>>

Next ==
    \/ IndexReadyStateChange
    \/ \E v \in Tags : SelectionChange(v)
    \/ ViewModeDeltaChange
    \/ IndexMessage
    \/ ClassesScript
    \/ ClassesReadyStateChange
    \/ ClassesMessage

Spec == Init /\ [][Next]_vars

(***************************************************************************)
(* Messages from other senders.  Both listeners take a message from any    *)
(* window, whatever its origin, and look only at event.data.method.        *)
(***************************************************************************)
\* A message without a method field: event.data.method is undefined.
NoMethod == "undefined"

\* Methods neither listener handles.
ForeignMethods == {"ping", NoMethod}

\* The methods of the messages of a queue.
Methods(queue) == {queue[i].method : i \in 1..Len(queue)}

\* Some window posts a message the index document does not handle (one
\* such message in the queue at a time).
ForeignToParent(method) ==
    /\ Len(toParent) < MaxInFlight
    /\ Methods(toParent) \cap ForeignMethods = {}
    /\ toParent' = Append(toParent, Message(method, Undefined, FALSE))
    /\ UNCHANGED <<controls, handlers, index_readyState, indexDom,
                   classes_readyState, classesDom, toFrame, answered, thrown>>

\* Some window posts a message the class document does not handle (one
\* such message in the queue at a time).
ForeignToFrame(method) ==
    /\ Len(toFrame) < MaxInFlight
    /\ Methods(toFrame) \cap ForeignMethods = {}
    /\ toFrame' = Append(toFrame, Message(method, Undefined, FALSE))
    /\ UNCHANGED <<controls, handlers, index_readyState, indexDom,
                   classes_readyState, classesDom, toParent, answered, thrown>>

NextAnyOrigin ==
    \/ Next
    \/ \E method \in ForeignMethods : ForeignToParent(method)
    \/ \E method \in ForeignMethods : ForeignToFrame(method)

\* The initial states with every untagged element hidden and the label
\* hidden exactly when the toggle is disabled.
InitAnyOrigin ==
    /\ Init
    /\ hiddenIndex = {e \in IndexDoc : e.tag = "li" /\ ~Tagged(e)}
    /\ hiddenClasses = {e \in ClassesDoc : e.tag = "div" /\ ~Tagged(e)}
    /\ viewModeDeltaLbl_hidden = viewModeDelta_disabled

SpecAnyOrigin == InitAnyOrigin /\ [][NextAnyOrigin]_vars

(***************************************************************************)
(* Start-up without user interaction: the ready-state events of both       *)
(* documents and the message deliveries alone.  The browser fires every    *)
(* pending ready-state event and delivers every posted message.            *)
(***************************************************************************)
NextStartup ==
    \/ IndexReadyStateChange
    \/ IndexMessage
    \/ ClassesScript
    \/ ClassesReadyStateChange
    \/ ClassesMessage

FairStartup ==
    /\ WF_vars(IndexReadyStateChange)
    /\ WF_vars(IndexMessage)
    /\ WF_vars(ClassesScript)
    /\ WF_vars(ClassesReadyStateChange)
    /\ WF_vars(ClassesMessage)

SpecStartup == Init /\ [][NextStartup]_vars /\ FairStartup

\* The whole system under the event loop's scheduling: every queued
\* message and every pending ready-state event is eventually dispatched;
\* nothing obliges the user to act.  Started from InitAnyOrigin.
SpecEventLoop == InitAnyOrigin /\ [][Next]_vars /\ FairStartup

(***************************************************************************)
(* Properties.                                                             *)
(***************************************************************************)
\* a <= b in string order, written without the code's comparison.
RECURSIVE LexLeq(_, _)
LexLeq(a, b) ==
    \/ a = <<>>
    \/ /\ b # <<>>
       /\ \/ a[1] < b[1]
          \/ a[1] = b[1] /\ LexLeq(Tail(a), Tail(b))

\* delta as update() computes it from the toggle's present state.
EffectiveDelta == (viewModeDelta_disabled = FALSE) /\ viewModeDelta_checked

\* The elements each controller's query selects are hidden exactly as the
\* rule of that controller says for (version, delta).
IndexReflects(version, delta) ==
    \A e \in classList_index :
        (e \in hiddenIndex) <=> ~show_index(version, delta, e)
ClassesReflects(version, delta) ==
    \A e \in classList_classes :
        (e \in hiddenClasses) <=> ~show_classes(version, delta, e)

\* C1: once a getFilter of the frame has run the selector's handler and
\* every message posted to the frame has been delivered, each tagged
\* element of the frame is hidden iff the parent's rule, on the parent's
\* present (selector value, effective delta), hides an element with the
\* same attributes; the frame's last call carries the very (version,
\* delta) of the parent's last call.
C1_CrossDocumentSync ==
    (answered /\ toFrame = <<>>) =>
        /\ \A e \in classList_classes :
               (e \in hiddenClasses)
                   <=> ~show_index(selection_value, EffectiveDelta, e)
        /\ lastClasses = lastIndex
        /\ lastIndex = Call("filterApply", selection_value, EffectiveDelta)

C1_Witness ==
    /\ answered
    /\ toFrame = <<>>
    /\ lastClasses = Call("filterApply", v1_2, TRUE)
    /\ hiddenClasses \cap classList_classes # {}
    /\ classList_classes \ hiddenClasses # {}

\* C2 as claimed: in every reachable state one (selectedVersion,
\* deltaMode) pair accounts for the hidden state of the tagged elements of
\* both documents (stated on the elements each controller's query
\* selects, which the claim implies).
C2_SamePairAtAllTimes ==
    \E v \in Tags, d \in BOOLEAN : IndexReflects(v, d) /\ ClassesReflects(v, d)

\* C2 amended: one pair accounts for both documents in every state in
\* which a getFilter of the frame has been answered and no message posted
\* to the frame is still undelivered.
C2_SamePairWhenDelivered ==
    (answered /\ toFrame = <<>>) =>
        \E v \in Tags, d \in BOOLEAN :
            IndexReflects(v, d) /\ ClassesReflects(v, d)

C2_Witness ==
    /\ answered
    /\ toFrame = <<>>
    /\ IndexReflects(v1_0, TRUE)
    /\ ClassesReflects(v1_0, TRUE)
    /\ hiddenIndex \cap classList_index # {}
    /\ hiddenClasses \cap classList_classes # {}

\* C3: after filterApply(version, true) in either controller, an element
\* its query selects is visible iff version is string-equal to its
\* data-version-first or data-version-last value (an absent attribute
\* matches nothing); first "1.0", last "1.2": "1.1" hides, "1.0" shows.
C3_DeltaExactness ==
    /\ (lastIndex.op = "filterApply" /\ lastIndex.delta) =>
           /\ \A e \in classList_index :
                  (e \notin hiddenIndex)
                      <=> (e.first = lastIndex.version \/ e.last = lastIndex.version)
           /\ lastIndex.version = v1_1 => Element("li", v1_0, v1_2) \in hiddenIndex
           /\ lastIndex.version = v1_0 => Element("li", v1_0, v1_2) \notin hiddenIndex
    /\ (lastClasses.op = "filterApply" /\ lastClasses.delta) =>
           /\ \A e \in classList_classes :
                  (e \notin hiddenClasses)
                      <=> (e.first = lastClasses.version \/ e.last = lastClasses.version)
           /\ lastClasses.version = v1_1 => Element("div", v1_0, v1_2) \in hiddenClasses
           /\ lastClasses.version = v1_0 => Element("div", v1_0, v1_2) \notin hiddenClasses

C3_Witness ==
    /\ lastIndex = Call("filterApply", v1_0, TRUE)
    /\ Element("li", v1_0, v1_2) \notin hiddenIndex
    /\ Element("li", Null, v1_2) \in hiddenIndex
    /\ lastClasses = Call("filterApply", v1_1, TRUE)
    /\ Element("div", v1_0, v1_2) \in hiddenClasses

\* C4: after filterApply("master", false) in either controller every
\* element its query selects is visible.
C4_CumulativeMaster ==
    /\ lastIndex = Call("filterApply", master, FALSE) =>
           hiddenIndex \cap classList_index = {}
    /\ lastClasses = Call("filterApply", master, FALSE) =>
           hiddenClasses \cap classList_classes = {}

C4_Witness ==
    /\ lastIndex = Call("filterApply", master, FALSE)
    /\ lastClasses = Call("filterApply", master, FALSE)
    /\ answered

\* C5 as claimed: after filterApply(version, false), version not "master",
\* an element is visible iff its data-version-first is present and <=
\* version in string order, or its data-version-last is present and <=
\* version in string order; with version "1.2", first "1.0" is visible and
\* first "2.0" without data-version-last is hidden.
C5_CumulativeOrdering ==
    /\ (lastIndex.op = "filterApply" /\ ~lastIndex.delta
            /\ lastIndex.version # master) =>
           \A e \in classList_index :
               (e \notin hiddenIndex)
                   <=> \/ e.first # Null /\ LexLeq(e.first.s, lastIndex.version.s)
                       \/ e.last # Null /\ LexLeq(e.last.s, lastIndex.version.s)
    /\ (lastClasses.op = "filterApply" /\ ~lastClasses.delta
            /\ lastClasses.version # master) =>
           \A e \in classList_classes :
               (e \notin hiddenClasses)
                   <=> \/ e.first # Null /\ LexLeq(e.first.s, lastClasses.version.s)
                       \/ e.last # Null /\ LexLeq(e.last.s, lastClasses.version.s)
    /\ lastIndex = Call("filterApply", v1_2, FALSE) =>
           /\ Element("li", v1_0, Null) \notin hiddenIndex
           /\ Element("li", v2_0, Null) \in hiddenIndex

\* C6: running filterApply(v, d) again right after filterApply(v, d) in
\* the same document leaves the set of hidden elements as it is; and so
\* does applying it twice rather than once from any reachable hidden set.
C6_IndexAppliesAgain ==
    /\ Len(toFrame') = Len(toFrame) + 1
    /\ lastIndex.op = "filterApply"
    /\ lastIndex' = lastIndex
C6_ClassesAppliesAgain ==
    /\ toFrame # <<>>
    /\ toFrame' = Tail(toFrame)
    /\ classes_readyState # "unloaded"
    /\ Head(toFrame).method = "filterApply"
    /\ lastClasses = Call("filterApply", Head(toFrame).version, Head(toFrame).delta)
C6_Idempotence ==
    /\ [][C6_IndexAppliesAgain => hiddenIndex' = hiddenIndex]_vars
    /\ [][C6_ClassesAppliesAgain => hiddenClasses' = hiddenClasses]_vars
    /\ [](\A v \in Tags, d \in BOOLEAN :
            LET st == [hidden |-> hiddenIndex, out |-> <<>>, last |-> NoCall]
                once == filterApply_index(st, v, d)
            IN /\ filterApply_index(once, v, d).hidden = once.hidden
               /\ filterApply_classes(filterApply_classes(hiddenClasses, v, d), v, d)
                      = filterApply_classes(hiddenClasses, v, d))

\* The same call has run twice in a row in both documents (the second
\* message of the two is the one just delivered).
C6_Witness ==
    /\ lastIndex = Call("filterApply", v1_2, TRUE)
    /\ lastClasses = lastIndex
    /\ toFrame = <<>>
    /\ toParent = <<>>
    /\ classes_readyState = "complete"
    /\ answered
    /\ ~thrown
    /\ hiddenClasses \cap classList_classes # {}

\* C7: filterClear() of the index document leaves none of its tagged
\* elements hidden and posts {method: "filterClear"} to the frame; once
\* the frame has handled a filterClear none of its tagged elements is
\* hidden.
C7_ClearRestoresAll ==
    /\ LET c == filterClear_index([hidden |-> hiddenIndex, out |-> toFrame,
                                   last |-> lastIndex])
       IN /\ {e \in IndexDoc : Tagged(e)} \cap c.hidden = {}
          /\ c.out = Append(toFrame, FilterClearMsg)
    /\ lastClasses.op = "filterClear" =>
           {e \in ClassesDoc : Tagged(e)} \cap hiddenClasses = {}
    /\ {e \in ClassesDoc : Tagged(e)} \cap filterClear_classes(hiddenClasses) = {}

\* The frame has handled the filterClear of an update() at "master" that
\* found elements hidden in both documents.
C7_Witness ==
    /\ lastClasses.op = "filterClear"
    /\ lastIndex = Call("filterApply", master, TRUE)
    /\ hiddenIndex \cap classList_index # {}
    /\ Len(toFrame) = 1
    /\ Head(toFrame) = FilterApplyMsg(master, TRUE)

C9_MasterScenario ==
    (lastIndex.op = "filterApply" /\ lastIndex.version = master
         /\ selection_value = master /\ toFrame = <<>>) =>
        /\ {e \in IndexDoc : Tagged(e)} \cap hiddenIndex = {}
        /\ {e \in ClassesDoc : Tagged(e)} \cap hiddenClasses = {}
        /\ viewModeDelta_disabled = FALSE

\* C9 amended: whenever update() has run with the selector at "master"
\* and an effective delta of false (toggle disabled or unchecked) and its
\* messages have been delivered, every tagged element is visible in both
\* documents; and update() at "master" leaves the toggle's disabled
\* property as it found it.
C9_MasterUpdateStep ==
    /\ lastIndex'.op = "filterApply"
    /\ lastIndex'.version = master
    /\ Len(toFrame') = Len(toFrame) + 2
C9_MasterCumulative ==
    /\ []((lastIndex = Call("filterApply", master, FALSE)
              /\ selection_value = master /\ toFrame = <<>>) =>
             /\ {e \in IndexDoc : Tagged(e)} \cap hiddenIndex = {}
             /\ {e \in ClassesDoc : Tagged(e)} \cap hiddenClasses = {})
    /\ [][C9_MasterUpdateStep =>
             viewModeDelta_disabled' = viewModeDelta_disabled]_vars

C9_Witness ==
    /\ lastIndex = Call("filterApply", master, FALSE)
    /\ lastClasses = Call("filterApply", master, FALSE)
    /\ selection_value = master
    /\ viewModeDelta_checked
    /\ viewModeDelta_disabled
    /\ toFrame = <<>>

\* C10 as claimed: once the ready-state handler of the index document has
\* run, update() has run: the index document is filtered for the present
\* selector state and a filterApply message has been posted to the frame.
C10_InitialUpdate ==
    index_readyState # "loading" =>
        /\ lastIndex.op = "filterApply"
        /\ IndexReflects(selection_value, EffectiveDelta)

\* C11: the step in which either listener handles a message whose method
\* it does not handle (the index document: any but "getFilter"; the class
\* document: any but "filterClear" / "filterApply"; a missing method
\* included) only takes the message off its queue: no element's hidden
\* state, no control, no handler changes, nothing is posted, nothing is
\* thrown.
C11_IndexHandlesForeign ==
    /\ toParent # <<>>
    /\ toParent' = Tail(toParent)
    /\ Head(toParent).method # "getFilter"
C11_ClassesHandlesForeign ==
    /\ toFrame # <<>>
    /\ toFrame' = Tail(toFrame)
    /\ Head(toFrame).method \notin {"filterClear", "filterApply"}
C11_UnrecognizedNoOp ==
    /\ [][C11_IndexHandlesForeign =>
             UNCHANGED <<controls, handlers, index_readyState, indexDom,
                         classes_readyState, classesDom, toFrame, answered,
                         thrown>>]_vars
    /\ [][C11_ClassesHandlesForeign =>
             UNCHANGED <<controls, handlers, index_readyState, indexDom,
                         classes_readyState, classesDom, toParent, answered,
                         thrown>>]_vars

\* Both listeners have run on filtered documents and each now has an
\* unhandled method at the head of its queue.
C11_Witness ==
    /\ toParent # <<>>
    /\ Head(toParent).method = NoMethod
    /\ toFrame # <<>>
    /\ Head(toFrame).method = "ping"
    /\ classes_readyState # "unloaded"
    /\ selection_onchange = "update"
    /\ hiddenClasses \cap classList_classes # {}
    /\ hiddenIndex \cap classList_index # {}

\* C12: once the frame handles the parent's messages and every message
\* posted to it has been delivered, in the order posted, the tagged
\* elements of both documents reflect the (version, effective delta) of
\* the most recent update(), which is the selector's and toggle's present
\* state, and the frame's last call is that update()'s filterApply.
C12_Convergence ==
    (lastClasses.op # "none" /\ toFrame = <<>>) =>
        /\ lastIndex = Call("filterApply", selection_value, EffectiveDelta)
        /\ lastClasses = lastIndex
        /\ IndexReflects(lastIndex.version, lastIndex.delta)
        /\ ClassesReflects(lastIndex.version, lastIndex.delta)

\* Both documents have converged on a pair set by the user's changes
\* alone (no getFilter has been answered).
C12_Witness ==
    /\ ~answered
    /\ toFrame = <<>>
    /\ lastIndex = Call("filterApply", v1_1, TRUE)
    /\ lastClasses = lastIndex
    /\ hiddenClasses \cap classList_classes # {}
    /\ index_readyState = "complete"

\* C13 as claimed: the step in which the index document handles a
\* getFilter while selection.onchange is not yet bound raises no error,
\* changes no element's hidden state and posts no message.
C13_EarlyGetFilter ==
    /\ toParent # <<>>
    /\ toParent' = Tail(toParent)
    /\ Head(toParent).method = "getFilter"
    /\ selection_onchange = "null"
C13_EarlyGetFilterDropped ==
    [][C13_EarlyGetFilter =>
          /\ thrown' = thrown
          /\ UNCHANGED <<hiddenIndex, hiddenClasses, toFrame>>]_vars

\* C14 as claimed: with no user interaction, under every interleaving of
\* the ready-state events and the message deliveries, the frame
\* eventually handles a filterApply carrying the parent's selector state.
C14_StartupLiveness ==
    <>(/\ lastClasses.op = "filterApply"
       /\ lastClasses.version = selection_value
       /\ lastClasses = lastIndex)

\* C15: an update() with the selector at "master" posts exactly a
\* filterClear and then a filterApply to the frame, any other update()
\* exactly one filterApply; the frame handles them in the order posted,
\* so a filterClear it has handled is followed by that filterApply and
\* its state, once the queue is empty, is that of a filterApply.
C15_UpdateRuns == Len(toFrame') > Len(toFrame)
C15_MessageOrder ==
    /\ [][C15_UpdateRuns =>
             IF selection_value' = master
             THEN toFrame' = toFrame \o <<FilterClearMsg,
                                 FilterApplyMsg(master, lastIndex'.delta)>>
             ELSE toFrame' = Append(toFrame,
                                 FilterApplyMsg(selection_value', lastIndex'.delta))]_vars
    /\ [](lastClasses.op = "filterClear" =>
             /\ toFrame # <<>>
             /\ Head(toFrame).method = "filterApply"
             /\ Head(toFrame).version = master)
    /\ []((toFrame = <<>> /\ lastClasses.op # "none") =>
             /\ lastClasses.op = "filterApply"
             /\ ClassesReflects(lastClasses.version, lastClasses.delta))

\* The frame has handled the two messages of an update() at "master" and
\* the one message of a later update() is still to be delivered.
C15_Witness ==
    /\ lastClasses = Call("filterApply", master, TRUE)
    /\ toFrame = <<FilterApplyMsg(v1_0, TRUE)>>
    /\ lastIndex = Call("filterApply", v1_0, TRUE)

\* C16 as claimed: the delta update() applies and sends is (toggle not
\* disabled and toggle checked) on the toggle as update() finds it, before
\* it enables the toggle: a toggle found disabled and checked gives delta
\* false, whatever the version.
C16_UpdateRuns ==
    /\ Len(toFrame') > Len(toFrame)
    /\ lastIndex'.op = "filterApply"
C16_DeltaAsFound ==
    [][C16_UpdateRuns =>
          LET d == (viewModeDelta_disabled = FALSE) /\ viewModeDelta_checked'
          IN /\ lastIndex' = Call("filterApply", selection_value', d)
             /\ toFrame'[Len(toFrame')] = FilterApplyMsg(selection_value', d)]_vars

\* C16 amended: the delta update() applies and sends is (toggle not
\* disabled and toggle checked) on the toggle as update() finds it when
\* the selector is at "master"; for any other version update() enables the
\* toggle first, so delta is the toggle's checked state alone: a toggle
\* found disabled and checked gives delta true.  In both branches delta
\* is (not disabled and checked) on the toggle as update() leaves it.
C16_EffectiveDelta ==
    [][C16_UpdateRuns =>
          LET d == IF selection_value' = master
                   THEN (viewModeDelta_disabled = FALSE) /\ viewModeDelta_checked'
                   ELSE viewModeDelta_checked'
          IN /\ lastIndex' = Call("filterApply", selection_value', d)
             /\ toFrame'[Len(toFrame')] = FilterApplyMsg(selection_value', d)
             /\ d = ((viewModeDelta_disabled' = FALSE) /\ viewModeDelta_checked')]_vars

\* update() has run at a version other than "master" with the toggle
\* checked, and at that version the label is shown and the toggle enabled.
C16_Witness ==
    /\ lastIndex = Call("filterApply", v1_2, TRUE)
    /\ viewModeDelta_checked
    /\ ~viewModeDelta_disabled
    /\ ~viewModeDeltaLbl_hidden
    /\ Len(toFrame) = 1
    /\ Head(toFrame) = FilterApplyMsg(v1_2, TRUE)
    /\ classes_readyState = "unloaded"

\* C17: the frame's elements change their hidden state, and the frame
\* runs a filter function, only in the step that handles a delivered
\* filterClear or filterApply, with the (version, delta) that message
\* carries and without posting anything; the frame's ready-state listener
\* only posts {method: "getFilter"} to the parent.
C17_FrameReactive ==
    /\ [][(hiddenClasses' # hiddenClasses \/ lastClasses' # lastClasses) =>
             /\ toFrame # <<>>
             /\ toFrame' = Tail(toFrame)
             /\ toParent' = toParent
             /\ \E m \in {Head(toFrame)} :
                   \/ /\ m.method = "filterClear"
                      /\ lastClasses' = Call("filterClear", Undefined, FALSE)
                      /\ hiddenClasses' = hiddenClasses \ classList_classes
                   \/ /\ m.method = "filterApply"
                      /\ lastClasses' = Call("filterApply", m.version, m.delta)
                      /\ ClassesReflects(m.version, m.delta)']_vars
    /\ [][(classes_readyState # "unloaded"
              /\ classes_readyState' # classes_readyState) =>
             /\ toParent' = Append(toParent, GetFilterMsg)
             /\ UNCHANGED <<hiddenClasses, lastClasses, toFrame>>]_vars

\* The filtered frame's ready state has changed again: its getFilter is
\* on its way and its elements are as the last message left them.
C17_Witness ==
    /\ classes_readyState = "complete"
    /\ toParent # <<>>
    /\ lastClasses = Call("filterApply", v1_0, FALSE)
    /\ hiddenClasses \cap classList_classes # {}

\* C18: what filterApply(v, d) leaves hidden among the frame's tagged
\* elements is, from any hidden set the frame can be in, the set of the
\* tagged elements the rule does not show at (v, d); so whatever was lost
\* or repeated before,
\* the frame that has handled a filterApply is in the state a frame that
\* missed nothing is in after that filterApply, and the step that handles
\* the next one brings it there.
C18_FreshApply(version, delta) ==
    {e \in classList_classes : ~show_classes(version, delta, e)}
C18_HistoryIndependence ==
    /\ [](\A version \in Tags, delta \in BOOLEAN :
             filterApply_classes(hiddenClasses, version, delta)
                 \cap classList_classes = C18_FreshApply(version, delta))
    /\ [](lastClasses.op = "filterApply" =>
             hiddenClasses \cap classList_classes =
                 C18_FreshApply(lastClasses.version, lastClasses.delta))
    /\ [][(lastClasses' # lastClasses /\ lastClasses'.op = "filterApply") =>
             hiddenClasses' \cap classList_classes =
                 C18_FreshApply(Head(toFrame).version, Head(toFrame).delta)]_vars

\* A getFilter was lost (its handler threw), the frame was left with some
\* tagged elements hidden, and a later update() of the parent has reached
\* the frame.
C18_Witness ==
    /\ thrown
    /\ ~answered
    /\ toFrame = <<>>
    /\ lastIndex = Call("filterApply", v1_2, TRUE)
    /\ lastClasses = lastIndex
    /\ hiddenClasses \cap classList_classes = C18_FreshApply(v1_2, TRUE)
    /\ C18_FreshApply(v1_2, TRUE) # C18_FreshApply(v1_0, FALSE)

\* C19: no operation changes the hidden state of an element of the index
\* document that is not an li, so its tagged non-li elements are never
\* hidden; in the frame every element with a version attribute, whatever
\* its tag, is hidden or shown by filterApply and shown by filterClear.
C19_NonLi(hidden) == {e \in hidden : e.tag # "li"}
C19_ElementScoping ==
    /\ [][C19_NonLi(hiddenIndex') = C19_NonLi(hiddenIndex)]_vars
    /\ [](\A e \in IndexDoc : (Tagged(e) /\ e.tag # "li") => e \notin hiddenIndex)
    /\ [](\A e \in ClassesDoc : Tagged(e) =>
             /\ lastClasses.op = "filterApply" =>
                   (e \in hiddenClasses <=>
                      ~show_classes(lastClasses.version, lastClasses.delta, e))
             /\ lastClasses.op = "filterClear" => e \notin hiddenClasses)

\* Both documents have applied (1.0, delta): the index hides the li tagged
\* (2.0, master) and not the div with the same attributes; the frame hides
\* its tagged span, li and div alike.
C19_Witness ==
    /\ lastIndex = Call("filterApply", v1_0, TRUE)
    /\ lastClasses = Call("filterApply", v1_0, TRUE)
    /\ Element("li", v2_0, master) \in hiddenIndex
    /\ Element("div", v2_0, master) \in IndexDoc \ hiddenIndex
    /\ Element("span", Null, v1_10) \in hiddenClasses
    /\ Element("li", v2_0, Null) \in hiddenClasses
    /\ Element("div", v2_0, master) \in hiddenClasses

\* C20: the step in which the frame handles a message posts nothing; the
\* parent posts at most two messages in a step, and only when it handles
\* a getFilter or a control changes; the frame posts one getFilter per
\* ready-state change; so unless the user keeps changing the controls
\* forever, both channels are eventually empty for good.
C20_UserChange ==
    \/ selection_value' # selection_value
    \/ viewModeDelta_checked' # viewModeDelta_checked
C20_NoMessageLoop ==
    /\ [][Len(toFrame') < Len(toFrame) => toParent' = toParent]_vars
    /\ [][Len(toFrame') > Len(toFrame) =>
             /\ Len(toFrame') <= Len(toFrame) + 2
             /\ \/ C20_UserChange
                \/ /\ toParent # <<>>
                   /\ Head(toParent).method = "getFilter"
                   /\ toParent' = Tail(toParent)]_vars
    /\ [][Len(toParent') > Len(toParent) =>
             /\ Len(toParent') = Len(toParent) + 1
             /\ classes_readyState' # classes_readyState
             /\ toFrame' = toFrame]_vars
    /\ \/ []<><<C20_UserChange>>_vars
       \/ <>[](toFrame = <<>> /\ toParent = <<>>)

\* Both ready-state changes of the frame have posted their getFilter, one
\* was answered, and both channels are empty again.
C20_Witness ==
    /\ classes_readyState = "complete"
    /\ index_readyState = "complete"
    /\ answered
    /\ thrown
    /\ toFrame = <<>>
    /\ toParent = <<>>
    /\ lastClasses = lastIndex
    /\ lastIndex.op = "filterApply"
====
